---------------------------- MODULE Spec2Model ----------------------------
(***************************************************************************)
(* Hybrid retrieval and ranking engine of the email ChatBot                *)
(* (src/app/retrieval.py): query expansion, reciprocal rank fusion over    *)
(* the lexical and the vector ranking, max-merge across expansions,        *)
(* metadata rerank and thread diversification; with it the retry loop of   *)
(* the embedder (src/app/embedding.py), the HTTP handlers over the         *)
(* conversation store (src/app/server.py) and the ingestion run with its   *)
(* checkpoint (src/app/ingest.py).  Each part has its own specification;   *)
(* the variables of the other parts stay idle in it.                       *)
(*                                                                         *)
(* Text is a sequence of one-character strings, so that strip, lower,      *)
(* split and substring containment are computed and not assumed.           *)
(* Scores are exact rationals scaled by Scale (an integer multiple of      *)
(* every denominator that occurs), where the code uses binary floats.      *)
(***************************************************************************)
EXTENDS Integers, Sequences, FiniteSets, TLC

VARIABLES
    pc,                \* position of the modelled call
    \* Retriever.search, _expand_query, _deduplicate_by_thread
    query,             \* the question passed to search / _expand_query
    llm_outcome,       \* what the expansion model call did: LLMError or a reply
    query_expansions,  \* list returned by _expand_query
    bm25_available,    \* self._bm25_index is not None
    hash_order,        \* order in which the runtime iterates a set of chunk ids
    corpus,            \* chunk id -> its parent message, an index of
                       \* BoostMessages
    responses,         \* per processed expansion: lexical hits, vector hits,
                       \* bm25_scores, semantic_scores, whether the embedding
                       \* call returned or raised, and the candidates
                       \* (top_chunk_ids with their fused scores)
    all_chunks,        \* search: ordered dict chunk id -> rrf_score
    reranked,          \* search: sorted scored chunks; input of the diversifier
    max_per_thread,    \* argument of _deduplicate_by_thread
    top_k_final,       \* settings.top_k_final
    result,            \* list returned by search / _deduplicate_by_thread
    conversation_history,  \* the earlier turns passed to search / _expand_query
    context,           \* _expand_query: the turns written into the prompt
    \* the candidate cut of search on its own
    expansion_scores,  \* hybrid_scores of one expansion, in the dict's order
    expansion_candidates,  \* top_chunk_ids
    \* the lexical ranking of _hybrid_search on its own
    bm25_raw_scores,   \* the raw BM25 score of each corpus position
    lexical_top_k,     \* top_k
    lexical_scores,    \* bm25_scores
    \* Embedder._embed_with_retry
    embed_attempt,     \* the loop variable `attempt`
    embed_calls,       \* calls of embeddings.create so far
    embed_errors,      \* the error of each failed call
    embed_delays,      \* the seconds slept, in order
    embed_raised,      \* the error that left the method
    \* the HTTP handlers of server.py
    conversation_store,    \* session id -> whether it has an entry, and the
                       \* stored messages
    asked,             \* session id -> number of exchanges saved so far
    cleared,           \* the session ids cleared and not served since
    last_request,      \* the request handled last, its HTTP status and the
                       \* conversation_history its calls of retriever.search
                       \* and chat_service.answer got
    \* ingest_emails
    raw_files,         \* the files under data/raw, sorted by path
    checkpoint_file,   \* the content of .ingestion_checkpoint.json
    added,             \* email id -> number of times its chunks were passed
                       \* to EmailIndex.add_chunks
    runs               \* one record per call of ingest_emails so far

\* the variables of a search, apart from the position
searchVars == <<query, llm_outcome, query_expansions, bm25_available,
                hash_order, corpus, responses, all_chunks, reranked,
                max_per_thread, top_k_final, result, conversation_history,
                context>>

cutVars == <<expansion_scores, expansion_candidates>>

lexicalVars == <<bm25_raw_scores, lexical_top_k, lexical_scores>>

embedVars == <<embed_attempt, embed_calls, embed_errors, embed_delays,
               embed_raised>>

serverVars == <<conversation_store, asked, cleared, last_request>>

ingestVars == <<raw_files, checkpoint_file, added, runs>>

\* what the actions of one part leave unchanged
notSearchVars == <<cutVars, lexicalVars, embedVars, serverVars, ingestVars>>

notCutVars == <<searchVars, lexicalVars, embedVars, serverVars, ingestVars>>

notLexicalVars == <<searchVars, cutVars, embedVars, serverVars, ingestVars>>

notEmbedVars == <<searchVars, cutVars, lexicalVars, serverVars, ingestVars>>

notServerVars == <<searchVars, cutVars, lexicalVars, embedVars, ingestVars>>

notIngestVars == <<searchVars, cutVars, lexicalVars, embedVars, serverVars>>

vars == <<pc, searchVars, cutVars, lexicalVars, embedVars, serverVars,
          ingestVars>>

\* the variables a specification does not use stay empty
CutIdle == expansion_scores = <<>> /\ expansion_candidates = <<>>

ServerIdle ==
    /\ conversation_store = <<>>
    /\ asked = <<>>
    /\ cleared = {}
    /\ last_request = <<>>

IngestIdle ==
    /\ raw_files = <<>>
    /\ checkpoint_file = <<>>
    /\ added = <<>>
    /\ runs = <<>>

EmbedIdle ==
    /\ embed_attempt = 0
    /\ embed_calls = 0
    /\ embed_errors = <<>>
    /\ embed_delays = <<>>
    /\ embed_raised = "none"

LexicalIdle ==
    /\ bm25_raw_scores = <<>>
    /\ lexical_top_k = 0
    /\ lexical_scores = <<>>

NotSearchIdle ==
    CutIdle /\ ServerIdle /\ IngestIdle /\ EmbedIdle /\ LexicalIdle

----------------------------------------------------------------------------
(* Bounds of the model *)

\* chunk ids of the indexed corpus are 1..NumChunks
NumChunks == 2
\* model value of settings.top_k (hits requested from each index)
TopK == 2
\* largest number of comma-separated pieces in a reply of the expansion model
MaxReplyPieces == 6
\* longest candidate list handed to _deduplicate_by_thread on its own
MaxCandidates == 5
\* thread ids of those candidate lists are 1..NumDedupThreads
NumDedupThreads == 3
\* largest max_per_thread tried
MaxPerThreadBound == 2
\* largest settings.top_k_final tried
MaxFinalBudget == 3
\* largest model value of settings.top_k_final in a search
SearchFinalBudget == 2
\* raw BM25 scores are 0..MaxRawScore
MaxRawScore == 2
\* largest corpus of the lexical ranking on its own
MaxPassages == 4
\* largest top_k of the lexical ranking on its own
MaxTopK == 3
\* longest conversation history passed to _expand_query
MaxHistory == 5
\* largest number of fused scores one expansion has
MaxFused == 202
\* largest number of exchanges saved for one session
MaxAsked == 11
\* largest number of files under data/raw
MaxFiles == 2
\* largest number of messages in one mbox file
MaxEmailsPerFile == 2
\* largest number of calls of ingest_emails
MaxRuns == 2
\* largest number of embedding calls of one run that succeed before one fails
MaxEmbedCalls == 2

(* Program constants *)

\* retrieval.py:136  expansions[:5]
ExpansionLimit == 5
\* retrieval.py:159,174  1.0 / (rank + 60)
RrfK == 60
\* retrieval.py:215  sorted_chunk_ids[:200]
PerExpansionCap == 200
\* retrieval.py:281  max_per_thread=1
SearchMaxPerThread == 1

\* embedding.py:39  max_retries = 5
EmbedMaxRetries == 5

----------------------------------------------------------------------------
(* Generic helpers *)

Min(a, b) == IF a <= b THEN a ELSE b

Range(s) == {s[i] : i \in 1..Len(s)}

\* all sequences without repetition over exactly the elements of S
Perms(S) == {s \in [1..Cardinality(S) -> S] : Range(s) = S}

\* all sequences without repetition of length n over elements of S
InjSeqs(S, n) == {s \in [1..n -> S] : \A i, j \in 1..n : i # j => s[i] # s[j]}

\* index of the first occurrence of x in s (0 when absent)
IndexOf(s, x) ==
    IF \E i \in 1..Len(s) : s[i] = x
    THEN CHOOSE i \in 1..Len(s) : s[i] = x /\ \A j \in 1..(i-1) : s[j] # x
    ELSE 0

----------------------------------------------------------------------------
(* Text *)

WhiteSpace == {" "}

RECURSIVE LStrip(_)
LStrip(s) == IF s # <<>> /\ Head(s) \in WhiteSpace THEN LStrip(Tail(s)) ELSE s

RECURSIVE RStrip(_)
RStrip(s) ==
    IF s # <<>> /\ s[Len(s)] \in WhiteSpace
    THEN RStrip(SubSeq(s, 1, Len(s) - 1))
    ELSE s

\* str.strip()
Strip(s) == RStrip(LStrip(s))

----------------------------------------------------------------------------
(* Retriever._expand_query, retrieval.py:92-100: the conversation context *)

\* line 94: the shortest history that is written into the prompt
MinContextTurns == 2
\* line 96: conversation_history[-4:]
ContextWindow == 4
\* line 100: msg['content'][:200]
ContextContentCap == 200

\* s[:n]
Take(s, n) == SubSeq(s, 1, Min(n, Len(s)))

\* s[-n:] for n > 0
LastN(s, n) == SubSeq(s, Len(s) - Min(n, Len(s)) + 1, Len(s))

\* line 99
RoleLabel(role) == IF role = "user" THEN "User" ELSE "Assistant"

\* line 100: f"{role}: {msg['content'][:200]}...\n"
ContextLine(msg) ==
    [role |-> RoleLabel(msg.role),
     content |-> Take(msg.content, ContextContentCap) \o <<".", ".", ".">>]

\* lines 92-100: the lines of the context block, none when the prompt has no
\* context block
BuildContext(history) ==
    IF history # <<>> /\ Len(history) >= MinContextTurns
    THEN LET recent == LastN(history, ContextWindow)
         IN  [i \in 1..Len(recent) |-> ContextLine(recent[i])]
    ELSE <<>>

\* the histories tried: n turns, user and assistant in alternation, the i-th
\* turn saying i letters m
HistoryOf(n) ==
    [i \in 1..n |-> [role |-> IF i % 2 = 1 THEN "user" ELSE "assistant",
                     content |-> [j \in 1..i |-> "m"]]]

Histories == {HistoryOf(n) : n \in 0..MaxHistory}

----------------------------------------------------------------------------
(* Retriever._expand_query, retrieval.py:120-140 *)

\* What the call to the expansion model did: it raised, or it returned a reply.
LLMError == [raised |-> TRUE, pieces |-> <<>>]

LLMReply(pieces) == [raised |-> FALSE, pieces |-> pieces]

\* before the call
NoCall == [raised |-> FALSE, pieces |-> <<>>]

\* A reply of the expansion model is the sequence of its comma-free pieces:
\* the text is the pieces joined by ",", and text.split(',') gives the pieces
\* back, so the reply <<" a", "", "q ">> stands for the text " a,,q ".
\* The pieces a reply is drawn from, around the question <<"q">>.
ReplyPieces ==
    { <<>>, <<" ">>, <<" ", "q", " ">>, <<"a">>, <<"b", " ">> }

Replies == UNION {[1..n -> ReplyPieces] : n \in 1..MaxReplyPieces}

\* [term.strip() for term in expansions_text.split(',') if term.strip()]
RECURSIVE ParseTerms(_)
ParseTerms(pieces) ==
    IF pieces = <<>> THEN <<>>
    ELSE LET term == Strip(Head(pieces))
         IN  IF term # <<>>
             THEN <<term>> \o ParseTerms(Tail(pieces))
             ELSE ParseTerms(Tail(pieces))

\* lines 132-134, "# Always include original query first":
\* if query not in expansions: expansions.insert(0, query)
InsertQuery(q, expansions) ==
    IF q \notin Range(expansions) THEN <<q>> \o expansions ELSE expansions

\* line 136 returning the whole list
LimitExpansionsOff(expansions) == expansions

\* return expansions[:5]
LimitExpansions(expansions) ==
    SubSeq(expansions, 1, Min(Len(expansions), ExpansionLimit))

\* the except branch: return [query]
ExpandFallbackEmpty(q) == <<>>

ExpandFallback(q) == <<q>>

\* line 138 catching nothing
ExceptionEscapesUncaught(outcome) == outcome.raised

\* line 138: "except Exception" handles every error raised in the try block
ExceptionEscapes(outcome) == FALSE

ExpandQuery(q, outcome) ==
    IF outcome.raised
    THEN ExpandFallback(q)
    ELSE LimitExpansions(InsertQuery(q, ParseTerms(outcome.pieces)))

----------------------------------------------------------------------------
(* Retriever._deduplicate_by_thread, retrieval.py:303-330 *)

\* A RetrievedChunk: chunk_id and thread_id of its chunk, and its score.
\* The loop state: deduplicated, seen_threads, and whether break was taken.

SeenCount(seen, thread_id) ==
    IF thread_id \in DOMAIN seen THEN seen[thread_id] ELSE 0

\* one iteration of "for item in chunks" with <= in place of <
DedupStepOffByOne(st, item, maxPer, budget) ==
    IF st.stopped THEN st
    ELSE LET thread_count == SeenCount(st.seen_threads, item.thread_id)
         IN  IF thread_count <= maxPer
             THEN LET dd == Append(st.deduplicated, item)
                  IN  [deduplicated |-> dd,
                       seen_threads |->
                           [t \in DOMAIN st.seen_threads \cup {item.thread_id} |->
                               IF t = item.thread_id THEN thread_count + 1
                               ELSE st.seen_threads[t]],
                       stopped |-> Len(dd) >= budget]
             ELSE st

\* one iteration with the budget test > in place of >=
DedupStepLateStop(st, item, maxPer, budget) ==
    IF st.stopped THEN st
    ELSE LET thread_count == SeenCount(st.seen_threads, item.thread_id)
         IN  IF thread_count < maxPer
             THEN LET dd == Append(st.deduplicated, item)
                  IN  [deduplicated |-> dd,
                       seen_threads |->
                           [t \in DOMAIN st.seen_threads \cup {item.thread_id} |->
                               IF t = item.thread_id THEN thread_count + 1
                               ELSE st.seen_threads[t]],
                       stopped |-> Len(dd) > budget]
             ELSE st

\* one iteration of "for item in chunks" (lines 316-328)
DedupStep(st, item, maxPer, budget) ==
    IF st.stopped THEN st
    ELSE LET thread_count == SeenCount(st.seen_threads, item.thread_id)
         IN  IF thread_count < maxPer
             THEN LET dd == Append(st.deduplicated, item)
                  IN  [deduplicated |-> dd,
                       seen_threads |->
                           [t \in DOMAIN st.seen_threads \cup {item.thread_id} |->
                               IF t = item.thread_id THEN thread_count + 1
                               ELSE st.seen_threads[t]],
                       stopped |-> Len(dd) >= budget]
             ELSE st

RECURSIVE DedupLoop(_, _, _, _)
DedupLoop(st, chunks, maxPer, budget) ==
    IF chunks = <<>> THEN st
    ELSE DedupLoop(DedupStep(st, Head(chunks), maxPer, budget),
                   Tail(chunks), maxPer, budget)

DeduplicateByThread(chunks, maxPer, budget) ==
    DedupLoop([deduplicated |-> <<>>, seen_threads |-> <<>>, stopped |-> FALSE],
              chunks, maxPer, budget).deduplicated

----------------------------------------------------------------------------
(* Text used by the metadata rerank *)

UpperAlphabet ==
    <<"A", "B", "C", "D", "E", "F", "G", "H", "I", "J", "K", "L", "M",
      "N", "O", "P", "Q", "R", "S", "T", "U", "V", "W", "X", "Y", "Z">>

LowerAlphabet ==
    <<"a", "b", "c", "d", "e", "f", "g", "h", "i", "j", "k", "l", "m",
      "n", "o", "p", "q", "r", "s", "t", "u", "v", "w", "x", "y", "z">>

Digits ==
    {"0", "1", "2", "3", "4", "5", "6", "7", "8", "9"}

\* the characters the pattern \w matches (ASCII text)
WordChars == Range(UpperAlphabet) \cup Range(LowerAlphabet) \cup Digits \cup {"_"}

IsUpper(c) == c \in Range(UpperAlphabet)

LowerChar(c) ==
    IF IsUpper(c) THEN LowerAlphabet[IndexOf(UpperAlphabet, c)] ELSE c

\* str.lower()
Lower(s) == [i \in 1..Len(s) |-> LowerChar(s[i])]

\* str.isdigit()
IsDigitString(s) == s # <<>> /\ \A i \in 1..Len(s) : s[i] \in Digits

\* "sub in s" for strings
Contains(sub, s) ==
    \E i \in 0..(Len(s) - Len(sub)) : SubSeq(s, i + 1, i + Len(sub)) = sub

\* the maximal runs of characters of `keep` in s, in order: with keep the
\* word characters this is re.findall(r'\b\w+\b', s), with keep the
\* non-blank characters it is s.split()
RECURSIVE Runs(_, _, _)
Runs(s, keep, cur) ==
    IF s = <<>> THEN (IF cur = <<>> THEN <<>> ELSE <<cur>>)
    ELSE IF Head(s) \in keep
         THEN Runs(Tail(s), keep, Append(cur, Head(s)))
         ELSE (IF cur = <<>> THEN <<>> ELSE <<cur>>) \o Runs(Tail(s), keep, <<>>)

FindWords(s) == Runs(s, WordChars, <<>>)

SplitWhitespace(s) == Runs(s, Range(s) \ WhiteSpace, <<>>)

----------------------------------------------------------------------------
(* Retriever._extract_keywords, retrieval.py:57-84 *)

StopWords ==
    { <<"t", "h", "e">>, <<"a">>, <<"a", "n">>,
      <<"a", "n", "d">>, <<"o", "r">>, <<"b", "u", "t">>,
      <<"i", "n">>, <<"o", "n">>, <<"a", "t">>,
      <<"t", "o">>, <<"f", "o", "r">>, <<"o", "f">>,
      <<"w", "i", "t", "h">>, <<"b", "y">>, <<"f", "r", "o", "m">>,
      <<"a", "b", "o", "u", "t">>, <<"a", "s">>, <<"i", "s">>,
      <<"w", "a", "s">>, <<"a", "r", "e">>, <<"w", "e", "r", "e">>,
      <<"w", "h", "a", "t">>, <<"w", "h", "e", "n">>, <<"w", "h", "e", "r", "e">>,
      <<"w", "h", "o">>, <<"h", "o", "w">>, <<"d", "i", "d">>,
      <<"d", "o">>, <<"d", "o", "e", "s">>, <<"t", "e", "l", "l">>,
      <<"m", "e">>, <<"m", "y">>, <<"y", "o", "u", "r">>,
      <<"o", "u", "r">>, <<"t", "h", "e", "i", "r">>, <<"h", "a", "v", "e">>,
      <<"h", "a", "s">>, <<"h", "a", "d">>, <<"b", "e">>,
      <<"b", "e", "e", "n">> }

\* keywords = {w for w in words if len(w) >= 3 and w not in stop_words}.
\* The date pattern's first alternative and the year pattern match whole
\* words of four digits, which are keywords already; its other alternatives
\* need a "/" or a month name followed by a number, which no question of
\* BoostQuestions contains.
ExtractKeywords(q) ==
    {w \in Range(FindWords(Lower(q))) : Len(w) >= 3 /\ w \notin StopWords}

----------------------------------------------------------------------------
(* Settings, config.py:25-50 *)

SpamSubjectPatterns ==
    << <<"o", "r", "d", "e", "r", " ", "c", "o", "n", "f", "i", "r", "m", "e", "d">>,
       <<"o", "r", "d", "e", "r", " ", "#">>,
       <<"a", "u", "t", "o", "m", "a", "t", "i", "c", " ", "r", "e", "p", "l", "y", ":">>,
       <<"o", "u", "t", " ", "o", "f", " ", "o", "f", "f", "i", "c", "e">>,
       <<"n", "i", "g", "h", "t", "l", "y", " ", "w", "r", "a", "p">>,
       <<"y", "o", "u", "r", " ", "e", "v", "e", "n", "t", " ", "l", "i", "n", "e", "u", "p">>,
       <<"t", "o", "p", " ", "s", "u", "g", "g", "e", "s", "t", "i", "o", "n", "s">>,
       <<"r", "e", "c", "o", "m", "m", "e", "n", "d", "a", "t", "i", "o", "n", "s", " ", "f", "o", "r", " ", "y", "o", "u">>,
       <<"a", "l", "e", "r", "t", ":">>,
       <<"n", "e", "w", "s", "l", "e", "t", "t", "e", "r">> >>

SpamSenderPatterns ==
    << <<"n", "o", "-", "r", "e", "p", "l", "y">>,
       <<"n", "o", "r", "e", "p", "l", "y">>,
       <<"d", "o", "n", "o", "t", "r", "e", "p", "l", "y">>,
       <<"n", "o", "t", "i", "f", "i", "c", "a", "t", "i", "o", "n", "s", "@">>,
       <<"a", "l", "e", "r", "t", "s", "@">> >>

----------------------------------------------------------------------------
(* Scores *)

\* Scores are multiples of 1/Scale: 1/(rank+60) for rank 1..4, and the
\* metadata weights 0.1*(m/n) for n in 1..3, 0.15 and 0.3, are all integers
\* when multiplied by Scale.
Scale == 61 * 62 * 63 * 64 * 60

\* 1.0 / (rank + 60) with the rank counted from 0
RrfFromZero(rank) == Scale \div (rank - 1 + RrfK)

\* 1.0 / (rank + 60)
Rrf(rank) == Scale \div (rank + RrfK)

\* config.py:31  spam_penalty = 0.3
SpamPenalty == (Scale \div 10) * 3

\* retrieval.py:257, 264  metadata_boost += 0.15
NameBoost == (Scale \div 20) * 3

YearBoost == (Scale \div 20) * 3

\* retrieval.py:250  0.1 * (subject_matches / max(len(query_keywords), 1))
SubjectBoost(matches, total) ==
    ((Scale \div 10) * matches) \div (IF total >= 1 THEN total ELSE 1)

----------------------------------------------------------------------------
(* The indexed corpus *)

ChunkIds == 1..NumChunks

\* the question asked
Questions ==
    { <<"I", "a", "n", " ", "l", "u", "n", "c", "h", " ", "2", "0", "2", "1">> }

\* Parent messages a chunk can belong to: thread id, subject, sender, date.
Messages ==
    << [thread_id |-> 1,
        subject |-> <<"L", "u", "n", "c", "h">>,
        from_address |-> <<"I", "a", "n", "@", "x", ".", "i", "o">>,
        date |-> <<"2", "0", "2", "1", "-", "0", "5", "-", "0", "1">>],
       [thread_id |-> 2,
        subject |-> <<"H", "e", "l", "l", "o">>,
        from_address |-> <<"b", "o", "b", "@", "x", ".", "i", "o">>,
        date |-> <<"2", "0", "2", "0", "-", "0", "1", "-", "0", "1">>],
       [thread_id |-> 3,
        subject |-> <<"N", "e", "w", "s", "l", "e", "t", "t", "e", "r">>,
        from_address |-> <<"N", "o", "R", "e", "p", "l", "y", "@", "x", ".", "i", "o">>,
        date |-> <<"2", "0", "2", "0", "-", "0", "1", "-", "0", "1">>] >>

\* Messages and further parent messages for the metadata rerank: a spammy
\* sender alone, a spammy subject in capitals alone, a sender holding two
\* names, a subject holding two keywords, a subject and a sender that come
\* close to a spam pattern, and another pair of spam patterns.
BoostMessages ==
    Messages \o
    << [thread_id |-> 4,
        subject |-> <<"H", "e", "l", "l", "o">>,
        from_address |-> <<"N", "o", "R", "e", "p", "l", "y", "@", "x", ".", "i", "o">>,
        date |-> <<"2", "0", "2", "0", "-", "0", "1", "-", "0", "1">>],
       [thread_id |-> 5,
        subject |-> <<"N", "E", "W", "S", "L", "E", "T", "T", "E", "R">>,
        from_address |-> <<"b", "o", "b", "@", "x", ".", "i", "o">>,
        date |-> <<"2", "0", "2", "0", "-", "0", "1", "-", "0", "1">>],
       [thread_id |-> 6,
        subject |-> <<"H", "e", "l", "l", "o">>,
        from_address |-> <<"I", "a", "n", ".", "B", "o", "b", "@", "x", ".", "i", "o">>,
        date |-> <<"2", "0", "2", "0", "-", "0", "1", "-", "0", "1">>],
       [thread_id |-> 7,
        subject |-> <<"I", "a", "n", " ", "l", "u", "n", "c", "h">>,
        from_address |-> <<"b", "o", "b", "@", "x", ".", "i", "o">>,
        date |-> <<"2", "0", "2", "1", "-", "0", "5", "-", "0", "1">>],
       [thread_id |-> 8,
        subject |-> <<"N", "e", "w", "s", " ", "l", "e", "t", "t", "e", "r">>,
        from_address |-> <<"n", "o", "_", "r", "e", "p", "l", "y", "@", "x", ".", "i", "o">>,
        date |-> <<"2", "0", "2", "0", "-", "0", "1", "-", "0", "1">>],
       [thread_id |-> 9,
        subject |-> <<"R", "e", ":", " ", "O", "r", "d", "e", "r", " ", "#", "1", "2">>,
        from_address |-> <<"A", "l", "e", "r", "t", "s", "@", "x", ".", "i", "o">>,
        date |-> <<"2", "0", "2", "1", "-", "0", "5", "-", "0", "1">>] >>

\* the questions of the metadata rerank: the question of Questions, one with
\* two capitalized names, and one without any keyword
BoostQuestions ==
    Questions \cup { <<"I", "a", "n", " ", "B", "o", "b", " ", "l", "u", "n", "c", "h">>,
                     <<"w", "h", "o", " ", "i", "s", " ", "i", "t">> }

\* a corpus gives every chunk its parent message; chunk ids are numbered in
\* the order of the messages
Corpora ==
    {c \in [ChunkIds -> 1..Len(Messages)] :
        \A i, j \in ChunkIds : i <= j => c[i] <= c[j]}

\* the IndexedChunk of a chunk id
ChunkOf(corp, id) == BoostMessages[corp[id]]

----------------------------------------------------------------------------
(* Retriever._is_spammy_email, retrieval.py:283-301 *)

\* lines 288-301 without the lower() of lines 288-289
IsSpammyEmailCaseSensitive(chunk) ==
    \/ \E i \in 1..Len(SpamSubjectPatterns) :
           Contains(SpamSubjectPatterns[i], chunk.subject)
    \/ \E i \in 1..Len(SpamSenderPatterns) :
           Contains(SpamSenderPatterns[i], chunk.from_address)

IsSpammyEmail(chunk) ==
    LET subject == Lower(chunk.subject)
        from_addr == Lower(chunk.from_address)
    IN  \/ \E i \in 1..Len(SpamSubjectPatterns) :
               Contains(SpamSubjectPatterns[i], subject)
        \/ \E i \in 1..Len(SpamSenderPatterns) :
               Contains(SpamSenderPatterns[i], from_addr)

----------------------------------------------------------------------------
(* Retriever.search, metadata boost, retrieval.py:244-273 *)

\* lines 247-250
SubjectTerm(q, chunk) ==
    LET query_keywords == ExtractKeywords(q)
        subject_lower == Lower(chunk.subject)
        subject_matches ==
            Cardinality({kw \in query_keywords : Contains(kw, subject_lower)})
    IN  IF subject_matches > 0
        THEN SubjectBoost(subject_matches, Cardinality(query_keywords))
        ELSE 0

\* lines 253-258 without the break: one bonus for every name that matches
NameTermCumulative(q, chunk) ==
    LET words == SplitWhitespace(q)
        potential_names ==
            {words[i] : i \in {j \in 1..Len(words) :
                                  IsUpper(words[j][1]) /\ Len(words[j]) > 2}}
        from_lower == Lower(chunk.from_address)
    IN  NameBoost * Cardinality({name \in potential_names :
                                    Contains(Lower(name), from_lower)})

\* lines 253-258
NameTerm(q, chunk) ==
    LET words == SplitWhitespace(q)
        potential_names ==
            {words[i] : i \in {j \in 1..Len(words) :
                                  IsUpper(words[j][1]) /\ Len(words[j]) > 2}}
        from_lower == Lower(chunk.from_address)
    IN  IF \E name \in potential_names : Contains(Lower(name), from_lower)
        THEN NameBoost
        ELSE 0

\* lines 261-265
YearTerm(q, chunk) ==
    IF \E keyword \in ExtractKeywords(q) :
           IsDigitString(keyword) /\ Len(keyword) = 4 /\ Contains(keyword, chunk.date)
    THEN YearBoost
    ELSE 0

\* lines 268-269 with the penalty taken once for a subject pattern and once
\* more for a sender pattern
SpamTermPerPattern(chunk) ==
    (IF \E i \in 1..Len(SpamSubjectPatterns) :
            Contains(SpamSubjectPatterns[i], Lower(chunk.subject))
     THEN 0 - SpamPenalty ELSE 0)
    + (IF \E i \in 1..Len(SpamSenderPatterns) :
              Contains(SpamSenderPatterns[i], Lower(chunk.from_address))
       THEN 0 - SpamPenalty ELSE 0)

\* lines 268-269
SpamTerm(chunk) == IF IsSpammyEmail(chunk) THEN 0 - SpamPenalty ELSE 0

\* lines 244-273 with the year bonus given only when no name matched
MetadataBoostExclusive(q, chunk) ==
    SubjectTerm(q, chunk) + NameTerm(q, chunk)
    + (IF NameTerm(q, chunk) = 0 THEN YearTerm(q, chunk) ELSE 0)
    + SpamTerm(chunk)

MetadataBoost(q, chunk) ==
    SubjectTerm(q, chunk) + NameTerm(q, chunk) + YearTerm(q, chunk) + SpamTerm(chunk)

\* metadata_boost of every message for every question, computed once
BoostTable ==
    [q \in BoostQuestions |->
        [m \in 1..Len(BoostMessages) |-> MetadataBoost(q, BoostMessages[m])]]

----------------------------------------------------------------------------
(* Sorting: sorted(..., key=score, reverse=True) is stable, equal keys keep *)
(* the order they had in the input                                          *)

\* the item of input position i comes after the items of greater score and
\* after the earlier items of equal score
StableSortDesc(items) ==
    LET n == Len(items)
        place == SubSeq([i \in 1..n |->
                            1 + Cardinality({j \in 1..n :
                                               \/ items[j].score > items[i].score
                                               \/ /\ items[j].score = items[i].score
                                                  /\ j < i})], 1, n)
    IN  [r \in 1..n |-> items[CHOOSE i \in 1..n : place[i] = r]]

----------------------------------------------------------------------------
(* Retriever._hybrid_search, retrieval.py:142-188 *)

\* line 155 over the passages that match the query only
Bm25TopIndicesMatching(raw_scores, top_k) ==
    LET matching == SelectSeq([i \in 1..Len(raw_scores) |->
                                  [chunk_id |-> i, score |-> raw_scores[i]]],
                              LAMBDA item : item.score > 0)
        ranked == StableSortDesc(matching)
    IN  [r \in 1..Min(top_k, Len(ranked)) |-> ranked[r].chunk_id]

\* line 155: indices of the corpus by raw BM25 score, best first, top_k of
\* them; corpus position i holds chunk id i
Bm25TopIndices(raw_scores, top_k) ==
    LET ranked == StableSortDesc([i \in 1..Len(raw_scores) |->
                                     [chunk_id |-> i, score |-> raw_scores[i]]])
    IN  [r \in 1..Min(top_k, Len(ranked)) |-> ranked[r].chunk_id]

\* lines 156-159 and 171-174: chunk id -> 1/(rank+60), rank counted from 1
RankScores(hits) ==
    [id \in Range(hits) |-> Rrf(IndexOf(hits, id))]

\* dict.get(chunk_id, 0.0)
GetOrZero(scores, id) == IF id \in DOMAIN scores THEN scores[id] ELSE 0

\* iteration over a set of chunk ids: the runtime's order, here the order
\* the ids have in `order`
IterateSet(S, order) ==
    LET In(x) == x \in S IN SelectSeq(order, In)

\* lines 176-188 with the semantic score replacing the lexical one instead
\* of being added to it
HybridSearchOverwrite(bm25_hits, raw_hits, order) ==
    LET bm25_scores == RankScores(bm25_hits)
        semantic_scores == RankScores(raw_hits)
        all_chunk_ids == IterateSet(DOMAIN bm25_scores \cup DOMAIN semantic_scores,
                                    order)
    IN  [i \in 1..Len(all_chunk_ids) |->
            [chunk_id |-> all_chunk_ids[i],
             score |-> IF all_chunk_ids[i] \in DOMAIN semantic_scores
                       THEN semantic_scores[all_chunk_ids[i]]
                       ELSE GetOrZero(bm25_scores, all_chunk_ids[i])]]

\* lines 176-188: combined_scores, a dict in the order the set was iterated
HybridSearch(bm25_hits, raw_hits, order) ==
    LET bm25_scores == RankScores(bm25_hits)
        semantic_scores == RankScores(raw_hits)
        all_chunk_ids == IterateSet(DOMAIN bm25_scores \cup DOMAIN semantic_scores,
                                    order)
    IN  [i \in 1..Len(all_chunk_ids) |->
            [chunk_id |-> all_chunk_ids[i],
             score |-> GetOrZero(bm25_scores, all_chunk_ids[i])
                       + GetOrZero(semantic_scores, all_chunk_ids[i])]]

----------------------------------------------------------------------------
(* Retriever.search, retrieval.py:190-281 *)

\* line 215 without the sort of line 214: the first 200 keys of the dict
TopChunkIdsUnsorted(hybrid_scores) ==
    SubSeq(hybrid_scores, 1, Min(Len(hybrid_scores), PerExpansionCap))

\* lines 214-215: the candidates of one expansion, best fused score first,
\* at most 200 of them
TopChunkIds(hybrid_scores) ==
    LET sorted_chunk_ids == StableSortDesc(hybrid_scores)
    IN  SubSeq(sorted_chunk_ids, 1, Min(Len(sorted_chunk_ids), PerExpansionCap))

\* EmailIndex.get_chunks_by_ids: the requested chunks, in the order requested
GetChunksByIds(top) == top

\* lines 219-224 without the test of line 219, the lookup answering an empty
\* list of ids with the whole collection; a chunk that has no fused score
\* gets hybrid_scores.get(chunk_id, 0.0)
LookupChunksUnguarded(top) ==
    IF top = <<>>
    THEN [i \in 1..NumChunks |-> [chunk_id |-> i, score |-> 0]]
    ELSE GetChunksByIds(top)

\* lines 219-220: the lookup is made only for a non-empty list of ids
LookupChunks(top) ==
    IF top # <<>> THEN GetChunksByIds(top) ELSE <<>>

\* lines 224-232 with the scores of two expansions added instead of compared
MergeStepSum(all, c) ==
    IF \E i \in 1..Len(all) : all[i].chunk_id = c.chunk_id
    THEN [i \in 1..Len(all) |->
             IF all[i].chunk_id = c.chunk_id
             THEN [all[i] EXCEPT !.score = @ + c.score]
             ELSE all[i]]
    ELSE Append(all, c)

\* lines 224-232: keep the best RRF score across expansions; an entry that
\* is replaced keeps its place in the dict
MergeStep(all, c) ==
    IF \E i \in 1..Len(all) : all[i].chunk_id = c.chunk_id
    THEN [i \in 1..Len(all) |->
             IF all[i].chunk_id = c.chunk_id /\ c.score > all[i].score
             THEN c
             ELSE all[i]]
    ELSE Append(all, c)

RECURSIVE MergeLoop(_, _)
MergeLoop(all, chunks) ==
    IF chunks = <<>> THEN all
    ELSE MergeLoop(MergeStep(all, Head(chunks)), Tail(chunks))

\* lines 210-232: one iteration of "for expanded_query in query_expansions"
MergeExpansion(all, resp, order) ==
    MergeLoop(all, LookupChunks(TopChunkIds(
        HybridSearch(resp.bm25_hits, resp.raw_hits, order))))

\* lines 236-275: scored_chunks, in the order of all_chunks
ScoreChunks(q, all, corp) ==
    [i \in 1..Len(all) |->
        [chunk_id |-> all[i].chunk_id,
         thread_id |-> ChunkOf(corp, all[i].chunk_id).thread_id,
         score |-> all[i].score + BoostTable[q][corp[all[i].chunk_id]]]]

\* line 278 without the sort
RerankUnsorted(scored) == scored

\* line 278: reranked = sorted(scored_chunks.values(), key=score, reverse=True)
Rerank(scored) == StableSortDesc(scored)

RECURSIVE MergeAll(_, _, _)
MergeAll(all, resps, order) ==
    IF resps = <<>> THEN all
    ELSE MergeAll(MergeExpansion(all, Head(resps), order), Tail(resps), order)

\* the reranked list of a whole search over the given per-expansion responses
RerankedOf(q, resps, order, corp) ==
    Rerank(ScoreChunks(q, MergeAll(<<>>, resps, order), corp))

\* the list search returns
SearchResultOf(q, resps, order, corp, budget) ==
    DeduplicateByThread(RerankedOf(q, resps, order, corp), SearchMaxPerThread, budget)

----------------------------------------------------------------------------
(* Inputs of one search *)

\* raw BM25 scores of the corpus for one query: one score per chunk
RawScoreVectors == [ChunkIds -> 0..MaxRawScore]

\* the lexical rankings the BM25 index can produce (always min(top_k, N) hits)
LexicalRankings == {Bm25TopIndices(rs, TopK) : rs \in RawScoreVectors}

\* the rankings the vector index can return for n_results = top_k: up to
\* top_k chunks of the collection, nearest first
VectorRankings == UNION {InjSeqs(ChunkIds, n) : n \in 0..Min(TopK, NumChunks)}

\* what the expansion model does in a search: it raises, or it replies with
\* one related term, so that a search runs over one or two expansions
SearchOutcomes ==
    {LLMError, LLMReply(<< <<"m", "e", "a", "l">> >>)}

----------------------------------------------------------------------------
(* Retriever._load_bm25_index, retrieval.py:38-55 *)

\* the states bm25_index.pkl can be in when the Retriever is constructed:
\* not there, there but pickle.load raises, or written whole by
\* scripts/build_bm25_index.py
Bm25Files == {"missing", "unloadable", "loaded"}

\* TRUE iff self._bm25_index is set after construction: line 41 returns
\* early, line 54 catches the error of pickle.load before any assignment
LoadBm25Index(file) ==
    IF file = "missing" THEN FALSE
    ELSE IF file = "unloadable" THEN FALSE
    ELSE TRUE

\* lines 148-159 with the test of line 149 left out
LexicalHitsUnguarded(available) == LexicalRankings

\* lines 148-159: the lexical rankings _hybrid_search can compute; none
\* when the index is not loaded
LexicalHits(available) ==
    IF available THEN LexicalRankings ELSE {<<>>}

----------------------------------------------------------------------------
(* Embedder._embed_with_retry, embedding.py:37-72 *)

\* what the embeddings endpoint does on every attempt of one call: it
\* answers, or it fails each time with the same kind of error
EmbedFailures == {"none", "rate_limit", "timeout", "connection", "unexpected"}

\* lines 49 and 58: the errors that are retried
RetriedFailures == {"rate_limit", "timeout", "connection"}

\* lines 44-69: one pass of "for attempt in range(max_retries)"
RECURSIVE EmbedAttempt(_, _)
EmbedAttempt(failure, attempt) ==
    IF attempt >= EmbedMaxRetries THEN "raised"
    ELSE IF failure = "none" THEN "returned"
    ELSE IF failure \in RetriedFailures
         THEN IF attempt < EmbedMaxRetries - 1
              THEN EmbedAttempt(failure, attempt + 1)
              ELSE "raised"
         ELSE "raised"

EmbedWithRetry(failure) == EmbedAttempt(failure, 0)

----------------------------------------------------------------------------
(* Specification of Retriever.search *)

Init ==
    /\ pc = "search"
    /\ query \in Questions
    /\ llm_outcome = NoCall
    /\ query_expansions = <<>>
    /\ bm25_available \in {LoadBm25Index(file) : file \in Bm25Files}
    /\ hash_order \in Perms(ChunkIds)
    /\ corpus \in Corpora
    /\ responses = <<>>
    /\ all_chunks = <<>>
    /\ reranked = <<>>
    /\ max_per_thread = SearchMaxPerThread
    /\ top_k_final = SearchFinalBudget
    /\ result = <<>>
    /\ conversation_history = <<>>
    /\ context = <<>>
    /\ NotSearchIdle

\* line 200: query_expansions = self._expand_query(query, ...)
SearchExpand ==
    /\ pc = "search"
    /\ \E outcome \in SearchOutcomes :
           /\ llm_outcome' = outcome
           /\ query_expansions' = ExpandQuery(query, outcome)
    /\ pc' = "expansions"
    /\ UNCHANGED <<query, bm25_available, hash_order, corpus, responses,
                   all_chunks, reranked, max_per_thread, top_k_final, result>>
    /\ context' = BuildContext(conversation_history)
    /\ UNCHANGED conversation_history
    /\ UNCHANGED notSearchVars

\* lines 209-232: one iteration of the loop over query_expansions, with the
\* hits the two indexes return for this expansion
SearchHybrid ==
    /\ pc = "expansions"
    /\ Len(responses) < Len(query_expansions)
    /\ \E failure \in EmbedFailures : EmbedWithRetry(failure) = "returned"
    /\ \E bm25_hits \in LexicalHits(bm25_available),
          raw_hits \in VectorRankings :
           LET top_chunk_ids ==
                   TopChunkIds(HybridSearch(bm25_hits, raw_hits, hash_order))
           IN  /\ responses' = Append(responses,
                                     [bm25_hits |-> bm25_hits,
                                      bm25_scores |-> RankScores(bm25_hits),
                                      embed |-> "returned",
                                      raw_hits |-> raw_hits,
                                      semantic_scores |-> RankScores(raw_hits),
                                      top_chunk_ids |-> top_chunk_ids])
               /\ all_chunks' = MergeLoop(all_chunks, LookupChunks(top_chunk_ids))
    /\ UNCHANGED <<pc, query, llm_outcome, query_expansions, bm25_available,
                   hash_order, corpus, reranked, max_per_thread, top_k_final,
                   result>>
    /\ UNCHANGED <<conversation_history, context>>
    /\ UNCHANGED notSearchVars

\* line 163: self._embedder.embed([query]) raises (embedding.py:56, 65, 69)
\* after the lexical ranking of the expansion was computed (lines 148-159);
\* nothing in _hybrid_search or search catches it, so search ends there
SearchEmbedRaises ==
    /\ pc = "expansions"
    /\ Len(responses) < Len(query_expansions)
    /\ \E failure \in EmbedFailures : EmbedWithRetry(failure) = "raised"
    /\ \E bm25_hits \in LexicalHits(bm25_available) :
           responses' = Append(responses,
                               [bm25_hits |-> bm25_hits,
                                bm25_scores |-> RankScores(bm25_hits),
                                embed |-> "raised",
                                raw_hits |-> <<>>,
                                semantic_scores |-> RankScores(<<>>),
                                top_chunk_ids |-> <<>>])
    /\ pc' = "raised"
    /\ UNCHANGED <<query, llm_outcome, query_expansions, bm25_available,
                   hash_order, corpus, all_chunks, reranked,
                   max_per_thread, top_k_final, result>>
    /\ UNCHANGED <<conversation_history, context>>
    /\ UNCHANGED notSearchVars

\* lines 234-281: rerank, sort, diversify, return
SearchFinish ==
    /\ pc = "expansions"
    /\ Len(responses) = Len(query_expansions)
    /\ LET r == Rerank(ScoreChunks(query, all_chunks, corpus))
       IN  /\ reranked' = r
           /\ result' = DeduplicateByThread(r, max_per_thread, top_k_final)
    /\ pc' = "done"
    /\ UNCHANGED <<query, llm_outcome, query_expansions, bm25_available,
                   hash_order, corpus, responses, all_chunks, max_per_thread,
                   top_k_final>>
    /\ UNCHANGED <<conversation_history, context>>
    /\ UNCHANGED notSearchVars

Next == SearchExpand \/ SearchHybrid \/ SearchEmbedRaises \/ SearchFinish

Spec == Init /\ [][Next]_vars

----------------------------------------------------------------------------
(* Specification of Retriever._expand_query on its own *)

ExpandQuestions == { <<"q">> }

InitExpand ==
    /\ pc = "expand"
    /\ query \in ExpandQuestions
    /\ llm_outcome = NoCall
    /\ query_expansions = <<>>
    /\ bm25_available = FALSE
    /\ hash_order = <<>>
    /\ corpus = <<>>
    /\ responses = <<>>
    /\ all_chunks = <<>>
    /\ reranked = <<>>
    /\ max_per_thread = SearchMaxPerThread
    /\ top_k_final = SearchFinalBudget
    /\ result = <<>>
    /\ conversation_history \in Histories
    /\ context = <<>>
    /\ NotSearchIdle

\* lines 120-140 with the given outcome of the call to the expansion model
ExpandWith(outcome) ==
    /\ llm_outcome' = outcome
    /\ IF ExceptionEscapes(outcome)
       THEN pc' = "raised" /\ UNCHANGED query_expansions
       ELSE pc' = "expanded" /\ query_expansions' = ExpandQuery(query, outcome)
    /\ UNCHANGED <<query, bm25_available, hash_order, corpus, responses,
                   all_chunks, reranked, max_per_thread, top_k_final, result>>
    /\ context' = BuildContext(conversation_history)
    /\ UNCHANGED conversation_history
    /\ UNCHANGED notSearchVars

\* the call returns a reply
ExpandReturns ==
    /\ pc = "expand"
    /\ \E pieces \in Replies : ExpandWith(LLMReply(pieces))

\* the call raises (timeout, rate limit, malformed response)
ExpandCallRaises ==
    /\ pc = "expand"
    /\ ExpandWith(LLMError)

NextExpand == ExpandReturns \/ ExpandCallRaises

SpecExpand == InitExpand /\ [][NextExpand]_vars

----------------------------------------------------------------------------
(* Specification of Retriever._deduplicate_by_thread on its own *)

\* the score-sorted candidate lists: chunk ids 1..n, any thread ids, scores
\* descending
CandidateLists ==
    UNION {{[i \in 1..n |-> [chunk_id |-> i, thread_id |-> th[i], score |-> n - i]] :
                th \in [1..n -> 1..NumDedupThreads]} : n \in 0..MaxCandidates}

InitDedup ==
    /\ pc = "dedup"
    /\ query = <<>>
    /\ llm_outcome = NoCall
    /\ query_expansions = <<>>
    /\ bm25_available = FALSE
    /\ hash_order = <<>>
    /\ corpus = <<>>
    /\ responses = <<>>
    /\ all_chunks = <<>>
    /\ reranked \in CandidateLists
    /\ max_per_thread \in 1..MaxPerThreadBound
    /\ top_k_final \in 1..MaxFinalBudget
    /\ result = <<>>
    /\ conversation_history = <<>>
    /\ context = <<>>
    /\ NotSearchIdle

Deduplicate ==
    /\ pc = "dedup"
    /\ result' = DeduplicateByThread(reranked, max_per_thread, top_k_final)
    /\ pc' = "deduplicated"
    /\ UNCHANGED <<query, llm_outcome, query_expansions, bm25_available,
                   hash_order, corpus, responses, all_chunks, reranked,
                   max_per_thread, top_k_final>>
    /\ UNCHANGED <<conversation_history, context>>
    /\ UNCHANGED notSearchVars

NextDedup == Deduplicate

SpecDedup == InitDedup /\ [][NextDedup]_vars

----------------------------------------------------------------------------
(* Specification of the metadata rerank of Retriever.search on its own,  *)
(* retrieval.py:234-278                                                    *)

\* the candidate map the rerank starts from: two chunks, each with the
\* merged fused score of a first rank in one signal or in both
BoostCandidates ==
    {<< [chunk_id |-> 1, score |-> s1], [chunk_id |-> 2, score |-> s2] >> :
        s1, s2 \in {Rrf(1), Rrf(1) + Rrf(1)}}

InitBoost ==
    /\ pc = "rerank"
    /\ query \in BoostQuestions
    /\ llm_outcome = NoCall
    /\ query_expansions = <<>>
    /\ bm25_available = FALSE
    /\ hash_order = <<>>
    /\ corpus \in [{1, 2} -> 1..Len(BoostMessages)]
    /\ responses = <<>>
    /\ all_chunks \in BoostCandidates
    /\ reranked = <<>>
    /\ max_per_thread = SearchMaxPerThread
    /\ top_k_final = SearchFinalBudget
    /\ result = <<>>
    /\ conversation_history = <<>>
    /\ context = <<>>
    /\ NotSearchIdle

\* lines 234-278: score every candidate, then sort
RerankChunks ==
    /\ pc = "rerank"
    /\ reranked' = Rerank(ScoreChunks(query, all_chunks, corpus))
    /\ pc' = "reranked"
    /\ UNCHANGED <<query, llm_outcome, query_expansions, bm25_available,
                   hash_order, corpus, responses, all_chunks,
                   max_per_thread, top_k_final, result>>
    /\ UNCHANGED <<conversation_history, context>>
    /\ UNCHANGED notSearchVars

NextBoost == RerankChunks

SpecBoost == InitBoost /\ [][NextBoost]_vars

----------------------------------------------------------------------------
(* Specification of the candidate cut of search, retrieval.py:214-215, on *)
(* its own                                                                *)

SearchIdle ==
    /\ query = <<>>
    /\ llm_outcome = NoCall
    /\ query_expansions = <<>>
    /\ bm25_available = FALSE
    /\ hash_order = <<>>
    /\ corpus = <<>>
    /\ responses = <<>>
    /\ all_chunks = <<>>
    /\ reranked = <<>>
    /\ max_per_thread = SearchMaxPerThread
    /\ top_k_final = SearchFinalBudget
    /\ result = <<>>
    /\ conversation_history = <<>>
    /\ context = <<>>

\* the numbers of fused scores tried: a few, and around the cap of line 215
CutSizes == 0..2 \cup (PerExpansionCap - 1)..MaxFused

\* hybrid_scores of one expansion: chunk ids 1..n in the dict's order, the
\* fused scores in a pattern with ties
FusedScoreLists ==
    {[i \in 1..n |-> [chunk_id |-> i, score |-> (a * i + b) % 5]] :
        n \in CutSizes, a \in 0..3, b \in 0..4}

InitCut ==
    /\ pc = "cut"
    /\ SearchIdle
    /\ expansion_scores \in FusedScoreLists
    /\ expansion_candidates = <<>>
    /\ ServerIdle
    /\ IngestIdle
    /\ EmbedIdle
    /\ LexicalIdle

\* lines 214-215
CutCandidates ==
    /\ pc = "cut"
    /\ expansion_candidates' = TopChunkIds(expansion_scores)
    /\ pc' = "cut_done"
    /\ UNCHANGED <<notCutVars, expansion_scores>>

NextCut == CutCandidates

SpecCut == InitCut /\ [][NextCut]_vars

----------------------------------------------------------------------------
(* The HTTP handlers of src/app/server.py: run_query and clear_conversation *)
(* over the in-memory conversation_store                                    *)

\* lines 120-121: the number of messages kept for a session
StoredMessagesCap == 20

\* the session ids a payload can carry; "" stands for a payload without a
\* session id (None) and for the empty string, both false at lines 108, 116
\* and 128
SessionIds == {"A", "B"}

PayloadSessionIds == SessionIds \cup {""}

\* the k-th question a client asks, k letters q, sent with blanks around it
QuestionText(k) == [j \in 1..k |-> "q"]

PayloadQuestion(k) == <<" ">> \o QuestionText(k) \o <<" ">>

\* questions that are empty or whitespace only
BlankQuestions == {<<>>, <<" ">>, <<" ", " ">>}

\* response["answer"] for a question
AnswerOf(question) == <<"a">> \o question

\* what the retrieval and the answer generation do for one request
QueryOutcomes == {"served", "search_raises", "answer_raises"}

\* line 20: defaultdict(list), empty when the module is loaded
EmptyStore == [s \in SessionIds |-> [present |-> FALSE, messages |-> <<>>]]

\* line 102 without the strip
QuestionUnstripped(payload_question) == payload_question

\* line 102: payload.question.strip()
QuestionOf(payload_question) == Strip(payload_question)

\* line 109: conversation_store[session_id] on the defaultdict creates the
\* entry, an empty list, when the session has none
TouchSession(store, session_id) ==
    IF store[session_id].present
    THEN store
    ELSE [store EXCEPT ![session_id] = [present |-> TRUE, messages |-> <<>>]]

\* lines 120-121 keeping the first 20 messages
TrimHistoryOldest(messages) ==
    IF Len(messages) > StoredMessagesCap
    THEN SubSeq(messages, 1, StoredMessagesCap)
    ELSE messages

\* lines 120-121
TrimHistory(messages) ==
    IF Len(messages) > StoredMessagesCap
    THEN LastN(messages, StoredMessagesCap)
    ELSE messages

\* lines 117-121
SaveExchange(store, session_id, question, answer) ==
    LET touched == TouchSession(store, session_id)
        appended == touched[session_id].messages
                        \o <<[role |-> "user", content |-> question],
                             [role |-> "assistant", content |-> answer]>>
    IN  [touched EXCEPT ![session_id].messages = TrimHistory(appended)]

\* line 129 as conversation_store.clear()
DeleteEverySession(store, session_id) == EmptyStore

\* line 129 left out
DeleteNoSession(store, session_id) == store

\* line 129: del conversation_store[session_id]
DeleteSession(store, session_id) ==
    [store EXCEPT ![session_id] = [present |-> FALSE, messages |-> <<>>]]

NoRequest ==
    [kind |-> "none", session_id |-> "", question |-> <<>>, status |-> 0,
     after_clear |-> FALSE,
     search_calls |-> <<>>, answer_calls |-> <<>>]

InitServer ==
    /\ pc = "serving"
    /\ SearchIdle
    /\ CutIdle
    /\ IngestIdle
    /\ EmbedIdle
    /\ LexicalIdle
    /\ conversation_store = EmptyStore
    /\ asked = [s \in SessionIds |-> 0]
    /\ cleared = {}
    /\ last_request = NoRequest

\* lines 96-123: one request to /api/query
RunQuery(payload_question, session_id, outcome) ==
    LET question == QuestionOf(payload_question)
        has_session == session_id # ""
        store == IF has_session
                 THEN TouchSession(conversation_store, session_id)
                 ELSE conversation_store
        history == IF has_session THEN store[session_id].messages ELSE <<>>
        request == [kind |-> "query", session_id |-> session_id,
                    question |-> payload_question, status |-> 0,
                    after_clear |-> session_id \in cleared,
                    search_calls |-> <<>>, answer_calls |-> <<>>]
    IN  IF question = <<>>
        THEN /\ last_request' = [request EXCEPT !.status = 400]
             /\ UNCHANGED <<conversation_store, asked, cleared>>
        ELSE IF outcome = "search_raises"
        THEN /\ last_request' = [request EXCEPT !.status = 500,
                                                !.search_calls = <<history>>]
             /\ conversation_store' = store
             /\ UNCHANGED <<asked, cleared>>
        ELSE IF outcome = "answer_raises"
        THEN /\ last_request' = [request EXCEPT !.status = 500,
                                                !.search_calls = <<history>>,
                                                !.answer_calls = <<history>>]
             /\ conversation_store' = store
             /\ UNCHANGED <<asked, cleared>>
        ELSE /\ last_request' = [request EXCEPT !.status = 200,
                                                !.search_calls = <<history>>,
                                                !.answer_calls = <<history>>]
             /\ IF has_session
                THEN /\ conversation_store' =
                            SaveExchange(store, session_id, question,
                                         AnswerOf(question))
                     /\ asked' = [asked EXCEPT ![session_id] = @ + 1]
                     /\ cleared' = cleared \ {session_id}
                ELSE UNCHANGED <<conversation_store, asked, cleared>>

\* the requests to /api/query: a client of a session sends its next question
\* or a blank one, a client without a session sends a question or a blank one
Query ==
    /\ pc = "serving"
    /\ \E session_id \in PayloadSessionIds, outcome \in QueryOutcomes :
           LET k == IF session_id = "" THEN 1 ELSE asked[session_id] + 1
           IN  /\ k <= MaxAsked
               /\ \E payload_question \in BlankQuestions \cup {PayloadQuestion(k)} :
                      RunQuery(payload_question, session_id, outcome)
    /\ UNCHANGED <<pc, notServerVars>>

\* lines 125-130: one request to /api/clear_conversation
ClearConversation ==
    /\ pc = "serving"
    /\ \E session_id \in PayloadSessionIds :
           /\ conversation_store' =
                  IF session_id # "" /\ conversation_store[session_id].present
                  THEN DeleteSession(conversation_store, session_id)
                  ELSE conversation_store
           /\ cleared' = IF session_id # "" THEN cleared \cup {session_id}
                         ELSE cleared
           /\ last_request' = [kind |-> "clear", session_id |-> session_id,
                               question |-> <<>>, status |-> 200,
                               after_clear |-> FALSE,
                               search_calls |-> <<>>, answer_calls |-> <<>>]
    /\ UNCHANGED <<pc, asked, notServerVars>>

NextServer == Query \/ ClearConversation

SpecServer == InitServer /\ [][NextServer]_vars

----------------------------------------------------------------------------
(* ingest_emails, src/app/ingest.py:335-573, called by manage.py ingest *)

\* line 456: batch_size_limit
BatchSizeLimit == 100

\* the numbers of chunks make_chunks gives for a message body: none, one, or
\* as many as a batch holds
ChunkCounts == {0, 1, BatchSizeLimit}

\* a raw message: whether _should_filter_email drops it, and the number of
\* chunks of its body
EmailShapes ==
    {[filtered |-> TRUE, chunks |-> 1]}
        \cup {[filtered |-> FALSE, chunks |-> c] : c \in ChunkCounts}

\* a raw file: a single message, or an mbox of several
FileShapes ==
    {[kind |-> "eml", emails |-> <<e>>] : e \in EmailShapes}
        \cup {[kind |-> "mbox", emails |-> es] :
                 es \in UNION {[1..n -> EmailShapes] : n \in 1..MaxEmailsPerFile}}

\* line 365: all_files, file i standing for the i-th path
RawDirs == UNION {[1..n -> FileShapes] : n \in 1..MaxFiles}

\* the message at position p of file i
EmailId(i, p) == (i - 1) * MaxEmailsPerFile + p

EmailIds == 1..(MaxFiles * MaxEmailsPerFile)

\* lines 30-38: IngestionCheckpoint; exists is FALSE when there is no
\* checkpoint file
NoCheckpoint ==
    [exists |-> FALSE, current_file |-> 0, emails_processed_in_file |-> 0,
     total_emails_indexed |-> 0, total_chunks_created |-> 0,
     total_emails_filtered |-> 0]

\* lines 345-348: the checkpoint is loaded only when resuming
LoadCheckpoint(resume, file) == IF resume THEN file ELSE NoCheckpoint

\* _parse_mbox_file(path, skip=skip) and parse_email_file(path): the parsed
\* messages of file i behind the first skip ones
ParseFile(files, i, skip) ==
    LET emails == files[i].emails
        parsed == [p \in 1..Len(emails) |->
                      [id |-> EmailId(i, p), file |-> i,
                       filtered |-> emails[p].filtered,
                       chunks |-> emails[p].chunks]]
    IN  SubSeq(parsed, skip + 1, Len(parsed))

IsKept(email) == ~email.filtered

\* lines 389-432: the loop over all_files; st holds start_processing,
\* skip_count, parser_summary and filtered_count
RECURSIVE ParseLoop(_, _, _, _, _)
ParseLoop(files, i, resume, checkpoint, st) ==
    IF i > Len(files)
    THEN st
    ELSE IF /\ resume /\ checkpoint.exists /\ ~st.start_processing
            /\ i # checkpoint.current_file
    THEN ParseLoop(files, i + 1, resume, checkpoint, st)
    ELSE LET start_processing ==
                 st.start_processing \/ (resume /\ checkpoint.exists)
             is_mbox == files[i].kind = "mbox"
             skip == IF is_mbox /\ start_processing /\ checkpoint.exists
                     THEN st.skip_count
                     ELSE 0
             parsed == ParseFile(files, i, skip)
             kept == SelectSeq(parsed, IsKept)
         IN  ParseLoop(files, i + 1, resume, checkpoint,
                       [start_processing |-> start_processing,
                        skip_count |-> IF is_mbox THEN 0 ELSE st.skip_count,
                        parser_summary |-> st.parser_summary \o kept,
                        filtered_count |-> st.filtered_count
                                               + Len(parsed) - Len(kept)])

\* len(batch_documents) for the messages whose chunks are in the batch
RECURSIVE BatchChunks(_)
BatchChunks(batch) ==
    IF batch = <<>> THEN 0 ELSE Head(batch).chunks + BatchChunks(Tail(batch))

\* embedder.embed(batch_documents) at line 501, as the calls_done + 1-th call
\* of the run: it returns, or it raises InsufficientFundsError, or it raises
\* another error
EmbedBatch(calls_done, calls_ok, failure) ==
    IF failure = "none" \/ calls_done < calls_ok THEN "embedded" ELSE failure

\* lines 520-527 and 532-539
CheckpointOf(st) ==
    [exists |-> TRUE, current_file |-> st.current_file,
     emails_processed_in_file |-> st.emails_processed,
     total_emails_indexed |-> st.total_indexed,
     total_chunks_created |-> st.total_chunks,
     total_emails_filtered |-> st.filtered_count]

\* lines 501-527: the batch is embedded and added, and a checkpoint is saved
FlushBatch(st, email_idx) ==
    LET InBatch(id) == \E k \in 1..Len(st.batch) : st.batch[k].id = id
        flushed == [st EXCEPT
                       !.index = [id \in EmailIds |->
                                     IF InBatch(id) THEN @[id] + 1 ELSE @[id]],
                       !.indexed_ids = @ \cup {st.batch[k].id : k \in 1..Len(st.batch)},
                       !.added_chunks = @ + BatchChunks(st.batch),
                       !.batch = <<>>,
                       !.emails_processed = email_idx,
                       !.total_indexed = @ + 1,
                       !.calls = @ + 1]
    IN  [flushed EXCEPT !.checkpoint = CheckpointOf(flushed)]

\* lines 461-527: the loop over parser_summary
RECURSIVE IndexLoop(_, _, _, _, _)
IndexLoop(parser_summary, email_idx, st, calls_ok, failure) ==
    IF email_idx > Len(parser_summary)
    THEN st
    ELSE LET email == parser_summary[email_idx]
             at == [st EXCEPT !.current_file = email.file]
         IN  IF email.chunks = 0
             THEN IndexLoop(parser_summary, email_idx + 1, at, calls_ok, failure)
             ELSE LET filled == [at EXCEPT !.batch = Append(@, email),
                                           !.total_chunks = @ + email.chunks]
                      should_process_batch ==
                          \/ BatchChunks(filled.batch) >= BatchSizeLimit
                          \/ email_idx = Len(parser_summary)
                      embedding == EmbedBatch(filled.calls, calls_ok, failure)
                  IN  IF ~should_process_batch
                      THEN IndexLoop(parser_summary, email_idx + 1, filled,
                                     calls_ok, failure)
                      ELSE IF embedding = "embedded"
                      THEN IndexLoop(parser_summary, email_idx + 1,
                                     FlushBatch(filled, email_idx),
                                     calls_ok, failure)
                      ELSE IF embedding = "insufficient_funds"
                      THEN [filled EXCEPT !.outcome = "insufficient_funds",
                                          !.checkpoint = CheckpointOf(filled)]
                      ELSE [filled EXCEPT !.outcome = "error"]

\* lines 335-573: one call ingest_emails(rebuild=rebuild, resume=resume) in
\* which the first calls_ok embedding calls succeed and the next one fails
\* with `failure`
IngestRun(files, file, index, rebuild, resume, calls_ok, failure) ==
    LET checkpoint == LoadCheckpoint(resume, file)
        parsed == ParseLoop(files, 1, resume, checkpoint,
                            [start_processing |-> ~resume,
                             skip_count |-> checkpoint.emails_processed_in_file,
                             parser_summary |-> <<>>,
                             filtered_count |-> checkpoint.total_emails_filtered])
        st == IndexLoop(parsed.parser_summary, 1,
                        [batch |-> <<>>,
                         total_chunks |-> checkpoint.total_chunks_created,
                         total_indexed |-> checkpoint.total_emails_indexed,
                         emails_processed |-> 0,
                         current_file |-> 1,
                         filtered_count |-> parsed.filtered_count,
                         index |-> IF rebuild THEN [id \in EmailIds |-> 0]
                                   ELSE index,
                         indexed_ids |-> {},
                         added_chunks |-> 0,
                         checkpoint |-> file,
                         calls |-> 0,
                         outcome |-> "complete"],
                        calls_ok, failure)
    IN  [index |-> st.index,
         \* lines 567-569: the checkpoint is deleted when the run completes
         checkpoint_file |-> IF st.outcome = "complete" THEN NoCheckpoint
                             ELSE st.checkpoint,
         run |-> [rebuild |-> rebuild, resume |-> resume,
                  outcome |-> st.outcome,
                  batches |-> st.calls,
                  parser_summary |-> parsed.parser_summary,
                  indexed_ids |-> st.indexed_ids,
                  pending |-> st.batch,
                  started_chunks |-> checkpoint.total_chunks_created,
                  added_chunks |-> st.added_chunks,
                  processed_messages |->
                      IF st.outcome = "complete"
                      THEN Len(parsed.parser_summary)
                      ELSE st.total_indexed,
                  processed_chunks |-> st.total_chunks,
                  filtered_messages |-> parsed.filtered_count]]

InitIngest ==
    /\ pc = "ingest"
    /\ SearchIdle
    /\ CutIdle
    /\ ServerIdle
    /\ EmbedIdle
    /\ LexicalIdle
    /\ raw_files \in RawDirs
    /\ checkpoint_file = NoCheckpoint
    /\ added = [id \in EmailIds |-> 0]
    /\ runs = <<>>

\* python manage.py ingest [--rebuild] [--resume]
IngestEmails ==
    /\ pc = "ingest"
    /\ Len(runs) < MaxRuns
    /\ \E rebuild \in BOOLEAN, resume \in BOOLEAN, calls_ok \in 0..MaxEmbedCalls,
          failure \in {"none", "insufficient_funds", "error"} :
           LET done == IngestRun(raw_files, checkpoint_file, added, rebuild,
                                 resume, calls_ok, failure)
           IN  /\ added' = done.index
               /\ checkpoint_file' = done.checkpoint_file
               /\ runs' = Append(runs, done.run)
    /\ UNCHANGED <<pc, raw_files, notIngestVars>>

NextIngest == IngestEmails

SpecIngest == InitIngest /\ [][NextIngest]_vars

----------------------------------------------------------------------------
(* Specification of Embedder._embed_with_retry, embedding.py:37-72, one *)
(* call of the embeddings endpoint per step                             *)

\* line 40: base_delay, in seconds
BaseDelay == 1

\* lines 50 and 59 for any error
ShouldRetryAnyError(failure, attempt) == attempt < EmbedMaxRetries - 1

\* lines 49-50 and 58-59: the error is one of the retried kinds and the
\* attempt is not the last one
ShouldRetry(failure, attempt) ==
    failure \in RetriedFailures /\ attempt < EmbedMaxRetries - 1

\* lines 51 and 60: delay = base_delay * (2 ** attempt)
RetryDelay(attempt) == BaseDelay * 2^attempt

InitEmbed ==
    /\ pc = "embed_call"
    /\ SearchIdle
    /\ CutIdle
    /\ ServerIdle
    /\ IngestIdle
    /\ EmbedIdle
    /\ LexicalIdle

\* lines 45-47: the call answers and the embeddings are returned
EmbedCallReturns ==
    /\ pc = "embed_call"
    /\ embed_attempt < EmbedMaxRetries
    /\ embed_calls' = embed_calls + 1
    /\ pc' = "embed_returned"
    /\ UNCHANGED <<embed_attempt, embed_errors, embed_delays, embed_raised,
                   notEmbedVars>>

\* lines 45 and 49-69: the call raises; the method sleeps and goes to the
\* next attempt, or lets the error out
EmbedCallFails ==
    /\ pc = "embed_call"
    /\ embed_attempt < EmbedMaxRetries
    /\ \E failure \in EmbedFailures \ {"none"} :
           /\ embed_calls' = embed_calls + 1
           /\ embed_errors' = Append(embed_errors, failure)
           /\ IF ShouldRetry(failure, embed_attempt)
              THEN /\ embed_delays' = Append(embed_delays, RetryDelay(embed_attempt))
                   /\ embed_attempt' = embed_attempt + 1
                   /\ UNCHANGED <<pc, embed_raised>>
              ELSE /\ embed_raised' = failure
                   /\ pc' = "embed_raised"
                   /\ UNCHANGED <<embed_attempt, embed_delays>>
    /\ UNCHANGED notEmbedVars

NextEmbed == EmbedCallReturns \/ EmbedCallFails

\* every call of the endpoint ends: the client is built with a timeout of 60
\* seconds (line 15) and time.sleep returns
SpecEmbed == InitEmbed /\ [][NextEmbed]_vars /\ WF_vars(NextEmbed)

----------------------------------------------------------------------------
(* Specification of the lexical ranking of _hybrid_search,               *)
(* retrieval.py:148-159, on its own, the BM25 index being loaded         *)

\* bm25_raw_scores of a corpus of n passages, position i holding chunk id i
RawScoreLists == UNION {[1..n -> 0..MaxRawScore] : n \in 0..MaxPassages}

InitLexical ==
    /\ pc = "lexical"
    /\ SearchIdle
    /\ CutIdle
    /\ ServerIdle
    /\ IngestIdle
    /\ EmbedIdle
    /\ bm25_raw_scores \in RawScoreLists
    /\ lexical_top_k \in 1..MaxTopK
    /\ lexical_scores = <<>>

\* lines 155-159
RankLexical ==
    /\ pc = "lexical"
    /\ lexical_scores' =
           RankScores(Bm25TopIndices(bm25_raw_scores, lexical_top_k))
    /\ pc' = "lexical_done"
    /\ UNCHANGED <<bm25_raw_scores, lexical_top_k, notLexicalVars>>

NextLexical == RankLexical

SpecLexical == InitLexical /\ [][NextLexical]_vars

----------------------------------------------------------------------------
(* Properties *)

\* the fused scores the processed expansions gave chunk c, one for every
\* expansion that kept c among its candidates (lines 214-220)
KeptScores(c) ==
    UNION {{responses[i].top_chunk_ids[k].score :
               k \in {n \in 1..Len(responses[i].top_chunk_ids) :
                          responses[i].top_chunk_ids[n].chunk_id = c}} :
           i \in 1..Len(responses)}

\* C1: across the expansions processed so far the candidate map has at most
\* one entry per chunk id, it has an entry exactly for the chunks some
\* expansion kept, and the entry's score is the largest of the fused scores
\* the expansions gave that chunk.
C1_MaxMerge ==
    pc \in {"expansions", "done"} =>
        /\ \A i, j \in 1..Len(all_chunks) :
               all_chunks[i].chunk_id = all_chunks[j].chunk_id => i = j
        /\ \A c \in ChunkIds :
               LET kept == KeptScores(c)
               IN  IF kept = {}
                   THEN \A i \in 1..Len(all_chunks) : all_chunks[i].chunk_id # c
                   ELSE \E i \in 1..Len(all_chunks) :
                            /\ all_chunks[i].chunk_id = c
                            /\ all_chunks[i].score \in kept
                            /\ \A s \in kept : s <= all_chunks[i].score

\* C1 witness: all expansions are processed and some chunk was kept by two
\* of them with different fused scores, so that max and sum differ.
C1_Witness ==
    /\ pc = "done"
    /\ \E c \in ChunkIds : Cardinality(KeptScores(c)) >= 2

\* C2: the list _expand_query returns has the original question as its
\* first element, whatever the expansion model replied.
C2_QuestionFirst ==
    pc = "expanded" => (query_expansions # <<>> /\ query_expansions[1] = query)

\* C3: when the call to the expansion model raises, _expand_query raises
\* nothing and returns exactly [question].
C3_ExpansionFallback ==
    (pc # "expand" /\ llm_outcome.raised) =>
        (pc = "expanded" /\ query_expansions = <<query>>)

\* C3 witness: the call raised and _expand_query has returned.
C3_Witness == pc = "expanded" /\ llm_outcome.raised

ThreadCount(chunks, t) ==
    Cardinality({i \in 1..Len(chunks) : chunks[i].thread_id = t})

\* C4: the list _deduplicate_by_thread returns holds at most max_per_thread
\* passages of any one thread.
C4_ThreadCap ==
    pc = "deduplicated" =>
        \A t \in 1..NumDedupThreads : ThreadCount(result, t) <= max_per_thread

\* C4 witness: a thread had more than max_per_thread candidates and the
\* result holds exactly max_per_thread of them.
C4_Witness ==
    /\ pc = "deduplicated"
    /\ \E t \in 1..NumDedupThreads :
           /\ ThreadCount(reranked, t) > max_per_thread
           /\ ThreadCount(result, t) = max_per_thread

\* C5: the list _deduplicate_by_thread returns is no longer than top_k_final.
C5_FinalBudget ==
    pc \in {"deduplicated", "done"} => Len(result) <= top_k_final

\* C5 witness: the budget was reached while a candidate of a thread not yet
\* seen was still waiting, and that candidate was left out.
C5_Witness ==
    /\ pc = "deduplicated"
    /\ Len(result) = top_k_final
    /\ \E i \in 1..Len(reranked) :
           \A k \in 1..Len(result) : result[k].thread_id # reranked[i].thread_id

\* the elements of chunks at the positions in sel, in order
RECURSIVE SubseqAt(_, _, _)
SubseqAt(chunks, sel, i) ==
    IF i > Len(chunks) THEN <<>>
    ELSE (IF i \in sel THEN <<chunks[i]>> ELSE <<>>) \o SubseqAt(chunks, sel, i + 1)

\* sel is the greedy selection: position i is selected exactly when fewer
\* than maxPer earlier positions of its thread and fewer than budget earlier
\* positions in all are selected
IsGreedySelection(chunks, sel, maxPer, budget) ==
    \A i \in 1..Len(chunks) :
        i \in sel <=>
            /\ Cardinality({j \in sel : j < i
                               /\ chunks[j].thread_id = chunks[i].thread_id}) < maxPer
            /\ Cardinality({j \in sel : j < i}) < budget

\* C6: _deduplicate_by_thread returns the greedy single-pass selection of its
\* input, in input order; for thread ids [T1,T1,T1,T2,T3], max_per_thread 1
\* and a budget of at least 3 that is the 1st, 4th and 5th passage.
C6_GreedySelection ==
    pc = "deduplicated" =>
        /\ \E sel \in SUBSET (1..Len(reranked)) :
               /\ IsGreedySelection(reranked, sel, max_per_thread, top_k_final)
               /\ result = SubseqAt(reranked, sel, 1)
        /\ ( /\ [i \in 1..Len(reranked) |-> reranked[i].thread_id] = <<1, 1, 1, 2, 3>>
             /\ max_per_thread = 1
             /\ top_k_final >= 3 )
           => result = <<reranked[1], reranked[4], reranked[5]>>

\* C6 witness: the thread ids [T1,T1,T1,T2,T3] with max_per_thread 1 gave
\* the 1st, 4th and 5th passage.
C6_Witness ==
    /\ pc = "deduplicated"
    /\ [i \in 1..Len(reranked) |-> reranked[i].thread_id] = <<1, 1, 1, 2, 3>>
    /\ max_per_thread = 1
    /\ [i \in 1..Len(result) |-> result[i].chunk_id] = <<1, 4, 5>>

C8_ExpansionOrderIndependent ==
    pc = "done" =>
        \A p \in Perms(1..Len(responses)) :
            SearchResultOf(query, [i \in 1..Len(responses) |-> responses[p[i]]],
                           hash_order, corpus, top_k_final) = result

\* C9: of two passages with equal final scores in the reranked list, the one
\* with the smaller chunk id comes first.
C9_TiesByIdentifier ==
    pc = "done" =>
        \A i, j \in 1..Len(reranked) :
            (i < j /\ reranked[i].score = reranked[j].score)
                => reranked[i].chunk_id < reranked[j].chunk_id

\* the merged fused score of a chunk in the candidate map
FusedScoreOf(c) ==
    all_chunks[CHOOSE i \in 1..Len(all_chunks) : all_chunks[i].chunk_id = c].score

\* C10: the list search returns is ordered by final score, highest first.
C10_ScoreDescending ==
    pc = "done" =>
        \A i, j \in 1..Len(result) : i < j => result[i].score >= result[j].score

\* C10 witness: a spammy passage whose fused score is the higher one is
\* returned after a competitor that is not spammy.
C10_Witness ==
    /\ pc = "done"
    /\ \E i, j \in 1..Len(result) :
           /\ i < j
           /\ IsSpammyEmail(ChunkOf(corpus, result[j].chunk_id))
           /\ ~IsSpammyEmail(ChunkOf(corpus, result[i].chunk_id))
           /\ FusedScoreOf(result[j].chunk_id) > FusedScoreOf(result[i].chunk_id)

\* C11: when the embedding call of an expansion fails, search does not
\* raise: it goes on without the vector signal of that expansion, and the
\* lexical hits of that expansion are among the candidates.
C11_EmbedFailureSkipped ==
    \A i \in 1..Len(responses) :
        responses[i].embed = "raised" =>
            /\ pc # "raised"
            /\ \A k \in 1..Len(responses[i].bm25_hits) :
                   \E n \in 1..Len(all_chunks) :
                       all_chunks[n].chunk_id = responses[i].bm25_hits[k]

Contribution(hits, id) ==
    LET ranks == {k \in 1..Len(hits) : hits[k] = id}
    IN  IF ranks = {} THEN 0 ELSE Scale \div ((CHOOSE k \in ranks : TRUE) + 60)

\* the ids a ranking holds
HitIds(hits) == {hits[k] : k \in 1..Len(hits)}

\* C13: within one expansion the fused mapping has one key for every chunk
\* of the lexical or the vector ranking and no other, and a chunk's fused
\* score is the sum of the contributions of the rankings that hold it.
C13_FusedIsSum ==
    \A i \in 1..Len(responses) :
        LET r == responses[i]
        IN  r.embed = "returned" =>
                /\ {r.top_chunk_ids[n].chunk_id : n \in 1..Len(r.top_chunk_ids)}
                       = HitIds(r.bm25_hits) \cup HitIds(r.raw_hits)
                /\ Len(r.top_chunk_ids)
                       = Cardinality(HitIds(r.bm25_hits) \cup HitIds(r.raw_hits))
                /\ \A n \in 1..Len(r.top_chunk_ids) :
                       r.top_chunk_ids[n].score
                           = Contribution(r.bm25_hits, r.top_chunk_ids[n].chunk_id)
                             + Contribution(r.raw_hits, r.top_chunk_ids[n].chunk_id)

\* C13 witness: an expansion with a chunk in both rankings and a chunk in
\* the lexical ranking only.
C13_Witness ==
    \E i \in 1..Len(responses) :
        /\ responses[i].embed = "returned"
        /\ \E a, b \in HitIds(responses[i].bm25_hits) :
               /\ a \in HitIds(responses[i].raw_hits)
               /\ b \notin HitIds(responses[i].raw_hits)

\* C14: the contribution bm25_scores or semantic_scores gives the hit at
\* rank k of its ranking, k counted from 1, is exactly 1/(k+60), which lies
\* in (0, 1/61];
\* a fused score of one expansion lies in (0, 2/61].
C14_RrfBound ==
    \A i \in 1..Len(responses) :
        LET r == responses[i]
        IN  /\ \A k \in 1..Len(r.bm25_hits) :
                   /\ r.bm25_scores[r.bm25_hits[k]] * (k + 60) = Scale
                   /\ r.bm25_scores[r.bm25_hits[k]] > 0
                   /\ r.bm25_scores[r.bm25_hits[k]] * 61 <= Scale
            /\ \A k \in 1..Len(r.raw_hits) :
                   /\ r.semantic_scores[r.raw_hits[k]] * (k + 60) = Scale
                   /\ r.semantic_scores[r.raw_hits[k]] > 0
                   /\ r.semantic_scores[r.raw_hits[k]] * 61 <= Scale
            /\ \A n \in 1..Len(r.top_chunk_ids) :
                   /\ r.top_chunk_ids[n].score > 0
                   /\ r.top_chunk_ids[n].score * 61 <= 2 * Scale

\* C14 witness: a chunk ranked first by both signals has the fused score
\* 2/61, next to a chunk ranked second by both.
C14_Witness ==
    \E i \in 1..Len(responses) :
        /\ Len(responses[i].bm25_hits) >= 2
        /\ Len(responses[i].raw_hits) >= 2
        /\ responses[i].bm25_hits[2] = responses[i].raw_hits[2]
        /\ \E n \in 1..Len(responses[i].top_chunk_ids) :
               responses[i].top_chunk_ids[n].score * 61 = 2 * Scale

\* two characters that are the same letter when case is ignored
SameLetter(a, b) ==
    \/ a = b
    \/ \E k \in 1..Len(UpperAlphabet) : {a, b} = {UpperAlphabet[k], LowerAlphabet[k]}

\* text contains pattern when the case of both is ignored
ContainsIgnoreCase(pattern, text) ==
    \E o \in 0..(Len(text) - Len(pattern)) :
        \A k \in 1..Len(pattern) : SameLetter(text[o + k], pattern[k])

\* text contains one of the patterns when case is ignored
MatchesAny(patterns, text) ==
    \E k \in 1..Len(patterns) : ContainsIgnoreCase(patterns[k], text)

\* the parent message of the i-th reranked passage
RerankedChunk(i) == ChunkOf(corpus, reranked[i].chunk_id)

\* what the rerank added to the fused score of the i-th reranked passage
Adjustment(i) == reranked[i].score - FusedScoreOf(reranked[i].chunk_id)

\* C15: of two passages with the same fused score, date, subject bonus and
\* name bonus, one spammy and one not, the spammy one's final score is
\* lower by exactly spam_penalty = 0.3, also when both its subject and its
\* sender match a pattern.
C15_SpamPenaltyOnce ==
    pc = "reranked" =>
        \A i, j \in 1..Len(reranked) :
            LET a == RerankedChunk(i)
                b == RerankedChunk(j)
            IN  ( /\ IsSpammyEmail(a)
                  /\ ~IsSpammyEmail(b)
                  /\ a.date = b.date
                  /\ SubjectTerm(query, a) = SubjectTerm(query, b)
                  /\ NameTerm(query, a) = NameTerm(query, b)
                  /\ FusedScoreOf(reranked[i].chunk_id)
                         = FusedScoreOf(reranked[j].chunk_id) )
                => reranked[j].score - reranked[i].score = 3 * (Scale \div 10)

\* C15 witness: such a pair was scored, the spammy passage matching a
\* subject pattern and a sender pattern at once.
C15_Witness ==
    /\ pc = "reranked"
    /\ \E i, j \in 1..Len(reranked) :
           LET a == RerankedChunk(i)
               b == RerankedChunk(j)
           IN  /\ MatchesAny(SpamSubjectPatterns, a.subject)
               /\ MatchesAny(SpamSenderPatterns, a.from_address)
               /\ ~IsSpammyEmail(b)
               /\ a.date = b.date
               /\ SubjectTerm(query, a) = SubjectTerm(query, b)
               /\ NameTerm(query, a) = NameTerm(query, b)
               /\ FusedScoreOf(reranked[i].chunk_id)
                      = FusedScoreOf(reranked[j].chunk_id)
               /\ reranked[j].score - reranked[i].score = 3 * (Scale \div 10)

\* whether a passage should count as spammy: its subject or its sender
\* contains a configured pattern, case ignored
ShouldBeSpammy(chunk) ==
    \/ MatchesAny(SpamSubjectPatterns, chunk.subject)
    \/ MatchesAny(SpamSenderPatterns, chunk.from_address)

C17_AdditiveAdjustments ==
    pc = "reranked" =>
        \A i \in 1..Len(reranked) :
            LET c == RerankedChunk(i)
            IN  /\ reranked[i].score
                       = FusedScoreOf(reranked[i].chunk_id)
                         + SubjectTerm(query, c) + NameTerm(query, c)
                         + YearTerm(query, c) + SpamTerm(c)
                /\ (query \in Questions /\ corpus[reranked[i].chunk_id] = 1)
                       => Adjustment(i) * 3 = Scale
                /\ \A j \in 1..Len(reranked) :
                       corpus[reranked[j].chunk_id] = corpus[reranked[i].chunk_id]
                           => Adjustment(j) = Adjustment(i)

\* C17 witness: a passage with the subject, name and year bonus together
\* was scored next to a passage with the year bonus and the spam penalty.
C17_Witness ==
    /\ pc = "reranked"
    /\ \E i, j \in 1..Len(reranked) :
           LET a == RerankedChunk(i)
               b == RerankedChunk(j)
           IN  /\ SubjectTerm(query, a) > 0
               /\ NameTerm(query, a) > 0
               /\ YearTerm(query, a) > 0
               /\ Adjustment(i) * 3 = Scale
               /\ YearTerm(query, b) > 0
               /\ SpamTerm(b) < 0
               /\ Adjustment(j) = YearTerm(query, b) + SpamTerm(b)

\* the capitalized question tokens longer than 2 that occur in the sender
MatchedNames(q, chunk) ==
    {w \in Range(SplitWhitespace(q)) :
        /\ IsUpper(w[1])
        /\ Len(w) > 2
        /\ ContainsIgnoreCase(w, chunk.from_address)}

\* C18: a passage whose sender holds one or more capitalized question
\* tokens gets the name bonus 0.15 exactly once, and no name bonus
\* otherwise.
C18_NameBonusOnce ==
    pc = "reranked" =>
        \A i \in 1..Len(reranked) :
            LET c == RerankedChunk(i)
            IN  Adjustment(i) - SubjectTerm(query, c) - YearTerm(query, c)
                    - SpamTerm(c)
                = IF MatchedNames(query, c) # {} THEN 3 * (Scale \div 20) ELSE 0

\* C18 witness: a sender holding two of the question's names got the same
\* bonus as a sender holding one.
C18_Witness ==
    /\ pc = "reranked"
    /\ \E i, j \in 1..Len(reranked) :
           /\ Cardinality(MatchedNames(query, RerankedChunk(i))) >= 2
           /\ Cardinality(MatchedNames(query, RerankedChunk(j))) = 1
           /\ SubjectTerm(query, RerankedChunk(i)) = SubjectTerm(query, RerankedChunk(j))
           /\ SpamTerm(RerankedChunk(i)) = SpamTerm(RerankedChunk(j))
           /\ YearTerm(query, RerankedChunk(i)) = YearTerm(query, RerankedChunk(j))
           /\ Adjustment(i) = Adjustment(j)

\* C19: as long as every expansion processed had an empty lexical and an
\* empty vector ranking, search has not raised and holds no candidate, and
\* when it returns it returns the empty list.
C19_EmptyInEmptyOut ==
    (\A i \in 1..Len(responses) :
        /\ responses[i].embed = "returned"
        /\ responses[i].bm25_hits = <<>>
        /\ responses[i].raw_hits = <<>>)
    => /\ pc # "raised"
       /\ all_chunks = <<>>
       /\ pc = "done" => (reranked = <<>> /\ result = <<>>)

\* C19 witness: a search over two expansions, both without any hit, has
\* returned the empty list.
C19_Witness ==
    /\ pc = "done"
    /\ Len(responses) = 2
    /\ \A i \in 1..Len(responses) :
           responses[i].bm25_hits = <<>> /\ responses[i].raw_hits = <<>>
    /\ result = <<>>

\* a string that is not empty and has no blank at either end
IsTrimmedTerm(e) ==
    /\ e # <<>>
    /\ e[1] \notin WhiteSpace
    /\ e[Len(e)] \notin WhiteSpace

\* C20: whatever the expansion model replied, _expand_query returns between
\* 1 and 5 strings, and every one of them that comes from the reply is
\* trimmed and not empty.
C20_ExpansionShape ==
    pc = "expanded" =>
        /\ Len(query_expansions) >= 1
        /\ Len(query_expansions) <= 5
        /\ \A i \in 1..Len(query_expansions) :
               query_expansions[i] = query \/ IsTrimmedTerm(query_expansions[i])

\* C20 witness: a reply of six pieces, one of them blank and one with a
\* blank at its end, gave five strings, the trimmed piece among them.
C20_Witness ==
    /\ pc = "expanded"
    /\ ~llm_outcome.raised
    /\ Len(llm_outcome.pieces) = 6
    /\ \E i, j \in 1..Len(llm_outcome.pieces) :
           /\ llm_outcome.pieces[i] = <<" ">>
           /\ llm_outcome.pieces[j] = <<"b", " ">>
    /\ Len(query_expansions) = 5
    /\ \E i \in 1..Len(query_expansions) : query_expansions[i] = <<"b">>


----------------------------------------------------------------------------
\* s is a prefix of t
IsPrefix(s, t) == Len(s) <= Len(t) /\ SubSeq(t, 1, Len(s)) = s

----------------------------------------------------------------------------
\* the candidates of the expansion that did not enter the merge
CutAway ==
    {i \in 1..Len(expansion_scores) :
        \A j \in 1..Len(expansion_candidates) :
            expansion_candidates[j].chunk_id # expansion_scores[i].chunk_id}

\* C22: of one expansion at most 200 candidates enter the merge across
\* expansions, and each one that enters has a fused score at least that of
\* every candidate of the expansion that was cut.
C22_CutKeepsBest ==
    pc = "cut_done" =>
        /\ Len(expansion_candidates) <= 200
        /\ \A j \in 1..Len(expansion_candidates) :
               \E i \in 1..Len(expansion_scores) :
                   expansion_scores[i] = expansion_candidates[j]
        /\ \A j \in 1..Len(expansion_candidates), i \in CutAway :
               expansion_candidates[j].score >= expansion_scores[i].score

\* a cut that drops a candidate and keeps one with a higher score than it,
\* which was behind it in the dict
C22_Witness ==
    /\ pc = "cut_done"
    /\ Len(expansion_candidates) = 200
    /\ \E i \in CutAway, j \in 1..Len(expansion_candidates) :
           /\ expansion_candidates[j].score > expansion_scores[i].score
           /\ expansion_candidates[j].chunk_id > i

----------------------------------------------------------------------------
\* the request handled last was a query of a session that was answered
ServedSessionQuery ==
    /\ last_request.kind = "query"
    /\ last_request.status = 200
    /\ last_request.session_id \in SessionIds

\* the two messages of the exchange the request handled last has saved
LastExchange ==
    LET q == [j \in 1..asked[last_request.session_id] |-> "q"]
    IN  <<[role |-> "user", content |-> q],
          [role |-> "assistant", content |-> <<"a">> \o q]>>

\* C23: whatever requests were handled, every session's stored history has at
\* most 20 messages, an even number of them, user and assistant in
\* alternation starting with user; an exchange that takes it past 20 leaves
\* exactly the 20 most recent messages.
C23_StoredHistoryShape ==
    /\ \A s \in SessionIds :
           LET m == conversation_store[s].messages
           IN  /\ Len(m) <= 20
               /\ Len(m) % 2 = 0
               /\ \A i \in 1..Len(m) :
                      m[i].role = IF i % 2 = 1 THEN "user" ELSE "assistant"
    /\ ServedSessionQuery =>
           LET all == last_request.search_calls[1] \o LastExchange
               stored == conversation_store[last_request.session_id].messages
           IN  IF Len(all) > 20
               THEN stored = [i \in 1..20 |-> all[Len(all) - 20 + i]]
               ELSE stored = all

\* an exchange of a session that already had 20 messages stored
C23_Witness ==
    /\ ServedSessionQuery
    /\ Len(last_request.search_calls[1]) = 20
    /\ Len(conversation_store[last_request.session_id].messages) = 20

\* C26: after a session was cleared, the next query of that session gets an
\* empty history in its search call and in its answer call, and once it is
\* answered the stored history of the session is that one exchange.
C26_ClearedSessionStartsEmpty ==
    (last_request.kind = "query" /\ last_request.after_clear) =>
        /\ \A i \in 1..Len(last_request.search_calls) :
               last_request.search_calls[i] = <<>>
        /\ \A i \in 1..Len(last_request.answer_calls) :
               last_request.answer_calls[i] = <<>>
        /\ last_request.status = 200 =>
               /\ Len(last_request.search_calls) = 1
               /\ Len(last_request.answer_calls) = 1
               /\ conversation_store[last_request.session_id].messages
                      = LastExchange

\* a session with saved exchanges was cleared and has been answered again
C26_Witness ==
    /\ ServedSessionQuery
    /\ last_request.after_clear
    /\ asked[last_request.session_id] >= 3

\* q is empty or has blanks only
IsBlank(q) == \A i \in 1..Len(q) : q[i] = " "

\* C27: a query whose question is empty or whitespace only is rejected with
\* status 400 before any search or answer call, and the conversation store
\* is left as it was, no entry created or changed.
C27_BlankQuestionRejected ==
    [][(last_request'.kind = "query" /\ IsBlank(last_request'.question)) =>
           /\ last_request'.status = 400
           /\ last_request'.search_calls = <<>>
           /\ last_request'.answer_calls = <<>>
           /\ conversation_store' = conversation_store]_vars

\* a whitespace-only question was sent for a session that has no entry
C27_Witness ==
    /\ last_request.kind = "query"
    /\ last_request.question = <<" ", " ">>
    /\ last_request.session_id = "A"
    /\ last_request.status = 400
    /\ ~conversation_store["A"].present
    /\ conversation_store["B"].present

\* C29: a query of session A leaves the history of every other session as it
\* was, a query without a session id leaves the whole store as it was, and
\* clearing A removes the history of A and of no other session.
C29_OtherSessionsUntouched ==
    [][/\ last_request'.kind \in {"query", "clear"} =>
              \A s \in SessionIds \ {last_request'.session_id} :
                  conversation_store'[s] = conversation_store[s]
       /\ (last_request'.kind = "query" /\ last_request'.session_id = "") =>
              conversation_store' = conversation_store
       /\ (last_request'.kind = "clear" /\ last_request'.session_id \in SessionIds) =>
              ~conversation_store'[last_request'.session_id].present]_vars

\* session A was cleared of its history while session B has one
C29_Witness ==
    /\ last_request.kind = "clear"
    /\ last_request.session_id = "A"
    /\ asked["A"] > 0
    /\ ~conversation_store["A"].present
    /\ conversation_store["B"].messages # <<>>

----------------------------------------------------------------------------
\* C24: when a call of ingest_emails completes without error, every chunk of
\* every kept email has been passed to add_chunks, whatever the emails are:
\* nothing is left in the pending batch, and the chunks added are the
\* reported processed_chunks less the checkpointed total the run began with.
C24_AllKeptChunksIndexed ==
    \A r \in 1..Len(runs) :
        runs[r].outcome = "complete" =>
            /\ runs[r].pending = <<>>
            /\ \A k \in 1..Len(runs[r].parser_summary) :
                   runs[r].parser_summary[k].chunks > 0 =>
                       runs[r].parser_summary[k].id \in runs[r].indexed_ids
            /\ runs[r].added_chunks
                   = runs[r].processed_chunks - runs[r].started_chunks

\* the emails of the raw files that pass the filters and have chunks
KeptEmailIds ==
    {EmailId(ip[1], ip[2]) :
        ip \in {jq \in (1..Len(raw_files)) \X (1..MaxEmailsPerFile) :
                   /\ jq[2] <= Len(raw_files[jq[1]].emails)
                   /\ ~raw_files[jq[1]].emails[jq[2]].filtered
                   /\ raw_files[jq[1]].emails[jq[2]].chunks > 0}}

\* C25: when a run is interrupted by InsufficientFundsError after some
\* batches and a run with resume=True over the same files and filters
\* follows and completes, every email that passes the filters has had its
\* chunks added exactly once by the two runs together.
C25_ResumeAddsOnce ==
    (/\ Len(runs) = 2
     /\ ~runs[1].resume
     /\ runs[1].outcome = "insufficient_funds"
     /\ runs[1].batches >= 1
     /\ runs[2].resume
     /\ ~runs[2].rebuild
     /\ runs[2].outcome = "complete")
        => \A id \in KeptEmailIds : added[id] = 1

----------------------------------------------------------------------------
\* the method has returned or raised
EmbedEnded == pc \in {"embed_returned", "embed_raised"}

EmbedShape ==
    /\ embed_calls <= 5
    /\ embed_calls = 5 => EmbedEnded
    \* it goes on only after a rate limit, a timeout or a connection error
    /\ \A i \in 1..Len(embed_errors) :
           (i < Len(embed_errors) \/ ~EmbedEnded)
               => embed_errors[i] \in {"rate_limit", "timeout", "connection"}
    \* it returns on the first call that succeeds
    /\ pc = "embed_returned" => embed_calls = Len(embed_errors) + 1
    \* it raises the error of the call that failed last, at once when that is
    \* another error and at the fifth call otherwise
    /\ pc = "embed_raised" =>
           /\ embed_calls = Len(embed_errors)
           /\ embed_raised = embed_errors[Len(embed_errors)]
           /\ \/ embed_raised \notin {"rate_limit", "timeout", "connection"}
              \/ embed_calls = 5
    \* one sleep between two calls: 1, 2, 4 and 8 seconds
    /\ Len(embed_delays) = IF EmbedEnded THEN embed_calls - 1 ELSE embed_calls
    /\ \A i \in 1..Len(embed_delays) : embed_delays[i] = <<1, 2, 4, 8>>[i]

\* C28: _embed_with_retry ends after at most 5 calls of the endpoint for a
\* batch: it returns on the first success, tries again only after a rate
\* limit, timeout or connection error, lets any other error out at once and
\* lets out the error of the fifth failed call; it sleeps 1, 2, 4 and 8
\* seconds between the calls.
C28_RetryBounded == []EmbedShape /\ <>EmbedEnded

\* five calls have failed with retried errors
C28_Witness ==
    /\ pc = "embed_raised"
    /\ embed_calls = 5
    /\ embed_raised = "timeout"
    /\ embed_delays = <<1, 2, 4, 8>>

----------------------------------------------------------------------------
\* passage a comes before passage b in the lexical order: higher raw score,
\* or the same raw score and an earlier corpus position
LexicallyBefore(a, b) ==
    \/ bm25_raw_scores[a] > bm25_raw_scores[b]
    \/ bm25_raw_scores[a] = bm25_raw_scores[b] /\ a < b

\* C30: with the lexical index over N passages of distinct ids, exactly
\* min(top_k, N) passages get a lexical contribution, every rank
\* 1..min(top_k, N) is used exactly once, ranks follow the raw score
\* downwards with equal raw scores in corpus order, and a passage of raw
\* score zero is ranked like any other.
C30_LexicalRanksOnce ==
    pc = "lexical_done" =>
        LET n == Len(bm25_raw_scores)
            m == IF lexical_top_k < n THEN lexical_top_k ELSE n
            ranked == DOMAIN lexical_scores
        IN  /\ ranked \subseteq 1..n
            /\ Cardinality(ranked) = m
            /\ \A r \in 1..m :
                   Cardinality({a \in ranked :
                                   lexical_scores[a] * (r + 60) = Scale}) = 1
            /\ \A a \in ranked, b \in 1..n :
                   /\ (b \in ranked /\ lexical_scores[a] > lexical_scores[b])
                          => LexicallyBefore(a, b)
                   /\ b \notin ranked => LexicallyBefore(a, b)

\* top_k cuts the ranking, two ranked passages have the same raw score, and
\* a passage of raw score zero is ranked
C30_Witness ==
    /\ pc = "lexical_done"
    /\ lexical_top_k < Len(bm25_raw_scores)
    /\ \E a, b \in DOMAIN lexical_scores :
           /\ a # b
           /\ bm25_raw_scores[a] = bm25_raw_scores[b]
    /\ \E a \in DOMAIN lexical_scores : bm25_raw_scores[a] = 0
    /\ \E a \in DOMAIN lexical_scores : bm25_raw_scores[a] > 0

=============================================================================
